---- MODULE Spec2Model ----
(***************************************************************************)
(* Model of src/parser.rs: the nom grammar of a Braille table.  A text is  *)
(* a sequence of one-character strings.  Every parser is an operator from  *)
(* a text to a result: Ok (remainder and value), Err (the input at the     *)
(* point of failure and nom's ErrorKind) or Panic (the unwrap of           *)
(* chars_to_dots on None, which aborts instead of returning).              *)
(***************************************************************************)
EXTENDS Integers, Sequences, FiniteSets

VARIABLES input, n, pc, op, res, i, acc

vars == <<input, n, pc, op, res, i, acc>>

(***************************************************************************)
(* Bounds of the explored inputs.                                          *)
(***************************************************************************)
MaxDotsLen == 5
MaxPrefixChunks == 5
MaxRuleChars == 4
MaxTableChunks == 4

(***************************************************************************)
(* Character classes of the nom matchers.                                  *)
(***************************************************************************)
Digits == {"0", "1", "2", "3", "4", "5", "6", "7", "8", "9"}
LowerHex == {"a", "b", "c", "d", "e", "f"}
UpperHex == {"A", "B", "C", "D", "E", "F"}
LowerAscii == {"a", "b", "c", "d", "e", "f", "g", "h", "i", "j", "k", "l", "m",
               "n", "o", "p", "q", "r", "s", "t", "u", "v", "w", "x", "y", "z"}
UpperAscii == {"A", "B", "C", "D", "E", "F", "G", "H", "I", "J", "K", "L", "M",
               "N", "O", "P", "Q", "R", "S", "T", "U", "V", "W", "X", "Y", "Z"}
\* "U+00FC" stands for the one character u-umlaut, "U+0B85" for Tamil a.
NonAsciiLetters == {"U+00FC", "U+0B85"}

IsHexDigit(c) == c \in Digits \cup LowerHex \cup UpperHex
IsAsciiAlpha(c) == c \in LowerAscii \cup UpperAscii
IsUnicodeAlpha(c) == c \in LowerAscii \cup UpperAscii \cup NonAsciiLetters
IsSpace(c) == c \in {" ", "\t"}

(***************************************************************************)
(* Results.                                                                *)
(***************************************************************************)
Ok(rest, val) == [kind |-> "ok", rest |-> rest, val |-> val]
Err(at, code) == [kind |-> "err", rest |-> at, val |-> code]
Panic == [kind |-> "panic", rest |-> <<>>, val |-> "unwrap on None"]
NoResult == [kind |-> "none", rest |-> <<>>, val |-> "none"]

StartsWith(s, t) == Len(t) <= Len(s) /\ SubSeq(s, 1, Len(t)) = t
Drop(s, k) == SubSeq(s, k + 1, Len(s))
Take(s, k) == SubSeq(s, 1, k)

\* tuple and the ? operator: the next parser runs on an Ok result only; an
\* Err is returned as it is and a panic aborts.
Then(r, F(_)) == IF r.kind = "ok" THEN F(r) ELSE r

\* map(p, |_| v)
MapTo(r, v) == IF r.kind = "ok" THEN Ok(r.rest, v) ELSE r

\* alt: the first alternative that does not return Err decides (a panic
\* aborts); when all return Err, the error of the last one is returned.
Alt(rs) ==
  IF \A k \in 1..Len(rs) : rs[k].kind = "err" THEN rs[Len(rs)]
  ELSE rs[CHOOSE k \in 1..Len(rs) :
            rs[k].kind # "err" /\ \A m \in 1..(k - 1) : rs[m].kind = "err"]

\* Length of the longest prefix of s whose characters all satisfy the class.
RECURSIVE SpanFrom(_, _, _)
SpanFrom(InClass, s, k) ==
  IF k < Len(s) /\ InClass[s[k + 1]] THEN SpanFrom(InClass, s, k + 1) ELSE k

HexClass == [c \in Digits \cup LowerAscii \cup UpperAscii \cup NonAsciiLetters
                   \cup {" ", "\t", "\n", "\r", "-", "#"} |-> IsHexDigit(c)]
AsciiAlphaClass == [c \in DOMAIN HexClass |-> IsAsciiAlpha(c)]
UnicodeAlphaClass == [c \in DOMAIN HexClass |-> IsUnicodeAlpha(c)]
SpaceClass == [c \in DOMAIN HexClass |-> IsSpace(c)]

SplitAt0(s, k) == Ok(Drop(s, k), Take(s, k))
SplitAt1(s, k, code) == IF k = 0 THEN Err(s, code) ELSE SplitAt0(s, k)

\* nom's one-or-more matchers: the longest non-empty prefix of the class.
TakeWhile1(InClass, code, s) == SplitAt1(s, SpanFrom(InClass, s, 0), code)

tag(t, s) == IF StartsWith(s, t) THEN Ok(Drop(s, Len(t)), t) ELSE Err(s, "Tag")
hex_digit1(s) == TakeWhile1(HexClass, "HexDigit", s)
alpha1(s) == TakeWhile1(AsciiAlphaClass, "Alpha", s)
unicode_alpha1(s) == TakeWhile1(UnicodeAlphaClass, "Alpha", s)
space1(s) == TakeWhile1(SpaceClass, "Space", s)
space0(s) == SplitAt0(s, SpanFrom(SpaceClass, s, 0))

(***************************************************************************)
(* Dots.                                                                   *)
(***************************************************************************)
None == "None"

char_to_dot(c) ==
  CASE c = "0" -> "DOT0" [] c = "1" -> "DOT1" [] c = "2" -> "DOT2"
    [] c = "3" -> "DOT3" [] c = "4" -> "DOT4" [] c = "5" -> "DOT5"
    [] c = "6" -> "DOT6" [] c = "7" -> "DOT7" [] c = "8" -> "DOT8"
    [] c = "9" -> "DOT9" [] c = "a" -> "DOTA" [] c = "b" -> "DOTB"
    [] c = "c" -> "DOTC" [] c = "d" -> "DOTD" [] c = "e" -> "DOTE"
    [] c = "f" -> "DOTF" [] OTHER -> None

\* Variant that decodes the first character of the run only.
chars_to_dots_first_only(run) ==
  IF char_to_dot(run[1]) = None
  THEN [panic |-> TRUE, cell |-> {}]
  ELSE [panic |-> FALSE, cell |-> {char_to_dot(run[1])}]

\* The unwrap panics on the first character char_to_dot maps to None.
chars_to_dots(run) ==
  IF \E k \in 1..Len(run) : char_to_dot(run[k]) = None
  THEN [panic |-> TRUE, cell |-> {}]
  ELSE [panic |-> FALSE, cell |-> {char_to_dot(run[k]) : k \in 1..Len(run)}]

RECURSIVE SeparatedLoop(_, _)

\* The end of one iteration of separated_list1: r is the result of the
\* separator followed by a run, stop the position the list ends at if r is
\* an Err.
SeparatedNext(stop, runs, r) ==
  IF r.kind = "err" THEN Ok(stop, runs)
  ELSE SeparatedLoop(r.rest, Append(runs, r.val))

DashThenRun(s) == Then(tag(<<"-">>, s), LAMBDA sep : hex_digit1(sep.rest))

\* Variant of the loop that keeps the separator it has matched when the run
\* after it fails.
SeparatedLoopKeepsSeparator(s, runs) ==
  SeparatedNext(IF StartsWith(s, <<"-">>) THEN Drop(s, 1) ELSE s, runs,
                DashThenRun(s))

\* The loop of separated_list1(tag("-"), hex_digit1) after the first run:
\* a failing separator, or a failing run after a separator, ends the list
\* at the position before that separator.
SeparatedLoop(s, runs) == SeparatedNext(s, runs, DashThenRun(s))

separated_list1(s) ==
  Then(hex_digit1(s), LAMBDA first : SeparatedLoop(first.rest, <<first.val>>))

\* The collect of dots: a panic in any run aborts.
CollectCells(rest, cells) ==
  IF \E k \in 1..Len(cells) : cells[k].panic THEN Panic
  ELSE Ok(rest, [k \in 1..Len(cells) |-> cells[k].cell])

dots(s) ==
  Then(separated_list1(s),
       LAMBDA l : CollectCells(l.rest,
                    [k \in 1..Len(l.val) |-> chars_to_dots(l.val[k])]))

(***************************************************************************)
(* Prefixes.                                                               *)
(***************************************************************************)
KwNoback == <<"n", "o", "b", "a", "c", "k">>
KwNofor == <<"n", "o", "f", "o", "r">>
KwNocross == <<"n", "o", "c", "r", "o", "s", "s">>

\* tuple((tag(k), space1))
KeywordSpace(k, s) == Then(tag(k, s), LAMBDA t : space1(t.rest))

\* tuple((tag(k1), space1, tag(k2), space1))
KeywordPair(k1, k2, s) ==
  Then(KeywordSpace(k1, s), LAMBDA a : KeywordSpace(k2, a.rest))

\* Variant of prefixes that tries the single keywords before the pairs.
prefixes_singles_first(s) ==
  Alt(<<MapTo(KeywordSpace(KwNofor, s), {"Nofor"}),
        MapTo(KeywordSpace(KwNoback, s), {"Noback"}),
        MapTo(KeywordSpace(KwNocross, s), {"Nocross"}),
        MapTo(KeywordPair(KwNoback, KwNocross, s), {"Noback", "Nocross"}),
        MapTo(KeywordPair(KwNofor, KwNocross, s), {"Nofor", "Nocross"}),
        Ok(s, {})>>)

\* alt of the five keyword forms in the order of the source, then success.
prefixes(s) ==
  Alt(<<MapTo(KeywordPair(KwNoback, KwNocross, s), {"Noback", "Nocross"}),
        MapTo(KeywordPair(KwNofor, KwNocross, s), {"Nofor", "Nocross"}),
        MapTo(KeywordSpace(KwNofor, s), {"Nofor"}),
        MapTo(KeywordSpace(KwNoback, s), {"Noback"}),
        MapTo(KeywordSpace(KwNocross, s), {"Nocross"}),
        Ok(s, {})>>)

(***************************************************************************)
(* Rules.                                                                  *)
(***************************************************************************)
KwInclude == <<"i", "n", "c", "l", "u", "d", "e">>
KwUndefined == <<"u", "n", "d", "e", "f", "i", "n", "e", "d">>
KwDisplay == <<"d", "i", "s", "p", "l", "a", "y">>
KwMultind == <<"m", "u", "l", "t", "i", "n", "d">>
KwLargesign == <<"l", "a", "r", "g", "e", "s", "i", "g", "n">>
KwSyllable == <<"s", "y", "l", "l", "a", "b", "l", "e">>
KwJoinword == <<"j", "o", "i", "n", "w", "o", "r", "d">>

chars(s) == unicode_alpha1(s)

ascii_chars(s) == alpha1(s)

include(s) ==
  Then(KeywordSpace(KwInclude, s), LAMBDA k :
  Then(chars(k.rest), LAMBDA f :
  Ok(f.rest, [rule |-> "Include", filename |-> f.val])))

undefined(s) ==
  Then(KeywordSpace(KwUndefined, s), LAMBDA k :
  Then(dots(k.rest), LAMBDA d :
  Ok(d.rest, [rule |-> "Undefined", dots |-> d.val])))

\* tuple((tag(kw), space1, chars, space1, dots)): the shape shared by
\* display, multind, largesign, syllable and joinword.
KeywordWordDots(kw, s) ==
  Then(KeywordSpace(kw, s), LAMBDA k :
  Then(chars(k.rest), LAMBDA w :
  Then(space1(w.rest), LAMBDA sp :
  Then(dots(sp.rest), LAMBDA d :
  Ok(d.rest, [word |-> w.val, dots |-> d.val])))))

\* opt(p): Some of the value, or None without consuming when p returns Err.
Opt(r, s) ==
  IF r.kind = "err" THEN Ok(s, [some |-> FALSE, value |-> {}])
  ELSE IF r.kind = "ok" THEN Ok(r.rest, [some |-> TRUE, value |-> r.val])
  ELSE r

opt_prefixes(s) == Opt(prefixes(s), s)

\* display and multind: opt(prefixes) first, and prefixes.unwrap() last.
PrefixedRule(name, kw, s) ==
  Then(opt_prefixes(s), LAMBDA p :
  Then(KeywordWordDots(kw, p.rest), LAMBDA r :
  IF p.val.some
  THEN Ok(r.rest, [rule |-> name, chars |-> r.val.word, dots |-> r.val.dots,
                   prefixes |-> p.val.value])
  ELSE Panic))

WordRule(name, kw, s) ==
  Then(KeywordWordDots(kw, s), LAMBDA r :
  Ok(r.rest, [rule |-> name, word |-> r.val.word, dots |-> r.val.dots]))

display(s) == PrefixedRule("Display", KwDisplay, s)
multind(s) == PrefixedRule("Multind", KwMultind, s)
largesign(s) == WordRule("Largesign", KwLargesign, s)
syllable(s) == WordRule("Syllable", KwSyllable, s)
joinword(s) == WordRule("Joinword", KwJoinword, s)

(***************************************************************************)
(* Lines.                                                                  *)
(***************************************************************************)
\* Position of the first "\r" or "\n" of s, or 0.
FirstLineEnd(s) ==
  IF \A k \in 1..Len(s) : s[k] \notin {"\r", "\n"} THEN 0
  ELSE CHOOSE k \in 1..Len(s) :
         s[k] \in {"\r", "\n"} /\ \A m \in 1..(k - 1) : s[m] \notin {"\r", "\n"}

NotLineEndingAt(s, k) ==
  IF k = 0 THEN Ok(<<>>, s)
  ELSE IF s[k] = "\r" /\ ~StartsWith(Drop(s, k - 1), <<"\r", "\n">>)
  THEN Err(s, "Tag")
  ELSE Ok(Drop(s, k - 1), Take(s, k - 1))

\* nom's not_line_ending: the text before the first "\r" or "\n"; a "\r"
\* that does not start "\r\n" is an error (ErrorKind::Tag) at the input.
not_line_ending(s) == NotLineEndingAt(s, FirstLineEnd(s))

\* Variant that also succeeds, consuming nothing, at the end of the input.
line_ending_or_eof(s) ==
  IF StartsWith(s, <<"\n">>) THEN Ok(Drop(s, 1), <<"\n">>)
  ELSE IF StartsWith(s, <<"\r", "\n">>) THEN Ok(Drop(s, 2), <<"\r", "\n">>)
  ELSE IF s = <<>> THEN Ok(s, <<>>)
  ELSE Err(s, "CrLf")

line_ending(s) ==
  IF StartsWith(s, <<"\n">>) THEN Ok(Drop(s, 1), <<"\n">>)
  ELSE IF StartsWith(s, <<"\r", "\n">>) THEN Ok(Drop(s, 2), <<"\r", "\n">>)
  ELSE Err(s, "CrLf")

\* Variant of end_comment that returns the leading whitespace with the text.
end_comment_with_space(s) ==
  Then(space1(s), LAMBDA sp :
  Then(not_line_ending(sp.rest), LAMBDA c : Ok(c.rest, sp.val \o c.val)))

end_comment(s) == Then(space1(s), LAMBDA sp : not_line_ending(sp.rest))

\* alt((include, undefined, display, multind, largesign, joinword, syllable))
rule(s) ==
  Alt(<<include(s), undefined(s), display(s), multind(s),
        largesign(s), joinword(s), syllable(s)>>)

rule_line(s) ==
  Then(rule(s), LAMBDA r :
  Then(Alt(<<end_comment(r.rest), space0(r.rest)>>), LAMBDA c :
  Then(line_ending(c.rest), LAMBDA e :
  Ok(e.rest, [line |-> "Rule", rule |-> r.val, comment |-> c.val]))))

comment_line(s) ==
  Then(tag(<<"#">>, s), LAMBDA h :
  Then(not_line_ending(h.rest), LAMBDA c :
  Then(line_ending(c.rest), LAMBDA e :
  Ok(e.rest, [line |-> "Comment", comment |-> c.val]))))

\* Variant of empty_line that skips any text, not only spaces and tabs.
empty_line_any_text(s) ==
  Then(not_line_ending(s), LAMBDA sp :
  Then(line_ending(sp.rest), LAMBDA e : Ok(e.rest, [line |-> "Empty"])))

empty_line(s) ==
  Then(space0(s), LAMBDA sp :
  Then(line_ending(sp.rest), LAMBDA e : Ok(e.rest, [line |-> "Empty"])))

line(s) == Alt(<<rule_line(s), comment_line(s), empty_line(s)>>)

(***************************************************************************)
(* Calling dots on texts over a small alphabet.                            *)
(***************************************************************************)
DotChars == {"1", "2", "f", "A", "-", "g"}

InitBuild ==
  /\ input = <<>>
  /\ n = 0
  /\ pc = "build"
  /\ op = "none"
  /\ res = NoResult
  /\ i = <<>>
  /\ acc = <<>>

DotsAppend ==
  /\ pc = "build"
  /\ n < MaxDotsLen
  /\ \E c \in DotChars : input' = Append(input, c)
  /\ n' = n + 1
  /\ UNCHANGED <<pc, op, res, i, acc>>

CallDots ==
  /\ pc = "build"
  /\ pc' = "called"
  /\ op' = "dots"
  /\ res' = dots(input)
  /\ UNCHANGED <<input, n, i, acc>>

NextDots == DotsAppend \/ CallDots

SpecDots == InitBuild /\ [][NextDots]_vars

(***************************************************************************)
(* Calling prefixes on texts made of keywords and whitespace.              *)
(***************************************************************************)
PrefixChunks == {KwNoback, KwNofor, KwNocross, <<" ">>, <<"\t">>, KwDisplay}

PrefixesAppend ==
  /\ pc = "build"
  /\ n < MaxPrefixChunks
  /\ \E c \in PrefixChunks : input' = input \o c
  /\ n' = n + 1
  /\ UNCHANGED <<pc, op, res, i, acc>>

CallPrefixes ==
  /\ pc = "build"
  /\ pc' = "called"
  /\ op' = "prefixes"
  /\ res' = prefixes(input)
  /\ UNCHANGED <<input, n, i, acc>>

NextPrefixes == PrefixesAppend \/ CallPrefixes

SpecPrefixes == InitBuild /\ [][NextPrefixes]_vars

(***************************************************************************)
(* Calling the seven rule parsers on an optional prefix and keyword        *)
(* followed by argument characters.                                        *)
(***************************************************************************)
RuleKeywords ==
  {KwInclude, KwUndefined, KwDisplay, KwMultind, KwLargesign, KwJoinword,
   KwSyllable}
RulePrefixes ==
  {<<>>, KwNoback \o <<" ">>, KwNofor \o <<" ">> \o KwNocross \o <<" ">>}
RuleChars == {" ", "U+00FC", "1", "A"}

RuleAppendKeyword ==
  /\ pc = "build"
  /\ input = <<>>
  /\ \E p \in RulePrefixes, k \in RuleKeywords : input' = p \o k
  /\ UNCHANGED <<n, pc, op, res, i, acc>>

RuleAppendChar ==
  /\ pc = "build"
  /\ n < MaxRuleChars
  /\ \E c \in RuleChars : input' = Append(input, c)
  /\ n' = n + 1
  /\ UNCHANGED <<pc, op, res, i, acc>>

CallInclude ==
  /\ pc = "build"
  /\ pc' = "called"
  /\ op' = "include"
  /\ res' = include(input)
  /\ UNCHANGED <<input, n, i, acc>>

CallUndefined ==
  /\ pc = "build"
  /\ pc' = "called"
  /\ op' = "undefined"
  /\ res' = undefined(input)
  /\ UNCHANGED <<input, n, i, acc>>

CallDisplay ==
  /\ pc = "build"
  /\ pc' = "called"
  /\ op' = "display"
  /\ res' = display(input)
  /\ UNCHANGED <<input, n, i, acc>>

CallMultind ==
  /\ pc = "build"
  /\ pc' = "called"
  /\ op' = "multind"
  /\ res' = multind(input)
  /\ UNCHANGED <<input, n, i, acc>>

CallLargesign ==
  /\ pc = "build"
  /\ pc' = "called"
  /\ op' = "largesign"
  /\ res' = largesign(input)
  /\ UNCHANGED <<input, n, i, acc>>

CallSyllable ==
  /\ pc = "build"
  /\ pc' = "called"
  /\ op' = "syllable"
  /\ res' = syllable(input)
  /\ UNCHANGED <<input, n, i, acc>>

CallJoinword ==
  /\ pc = "build"
  /\ pc' = "called"
  /\ op' = "joinword"
  /\ res' = joinword(input)
  /\ UNCHANGED <<input, n, i, acc>>


NextRule ==
  \/ RuleAppendKeyword
  \/ RuleAppendChar
  \/ CallInclude
  \/ CallUndefined
  \/ CallDisplay
  \/ CallMultind
  \/ CallLargesign
  \/ CallSyllable
  \/ CallJoinword

SpecRule == InitBuild /\ [][NextRule]_vars

(***************************************************************************)
(* Calling the line parsers and table on texts that start with an optional *)
(* rule and go on with whitespace, "#", line ends and further rules.       *)
(***************************************************************************)
Sp == <<" ">>
Word == <<"U+00FC">>
TableRules ==
  {KwInclude \o Sp \o Word,
   KwUndefined \o Sp \o <<"1">>,
   KwUndefined \o Sp \o <<"1", "A">>,
   KwNoback \o Sp \o KwNocross \o Sp \o KwDisplay \o Sp \o Word \o Sp \o <<"1">>,
   KwDisplay \o Sp \o Word \o Sp \o <<"1", "2", "2">>,
   KwNofor \o Sp \o KwMultind \o Sp \o Word \o Sp \o <<"1">>,
   KwLargesign \o Sp \o Word \o Sp \o <<"1">>,
   KwJoinword \o Sp \o Word \o Sp \o <<"1", "-", "2">>,
   KwSyllable \o Sp \o Word \o Sp \o <<"1", "-">>}
TableChunks ==
  {<<" ">>, <<"\t">>, <<"#">>, <<"\n">>, <<"\r">>,
   KwJoinword \o Sp \o Word \o Sp \o <<"1">>,
   KwUndefined \o Sp \o <<"1", "A">>}

TableAppendRule ==
  /\ pc = "build"
  /\ input = <<>>
  /\ \E r \in TableRules : input' = r
  /\ UNCHANGED <<n, pc, op, res, i, acc>>

TableAppendChunk ==
  /\ pc = "build"
  /\ n < MaxTableChunks
  /\ \E c \in TableChunks : input' = input \o c
  /\ n' = n + 1
  /\ UNCHANGED <<pc, op, res, i, acc>>

CallEndComment ==
  /\ pc = "build"
  /\ pc' = "called"
  /\ op' = "end_comment"
  /\ res' = end_comment(input)
  /\ UNCHANGED <<input, n, i, acc>>

CallRuleLine ==
  /\ pc = "build"
  /\ pc' = "called"
  /\ op' = "rule_line"
  /\ res' = rule_line(input)
  /\ UNCHANGED <<input, n, i, acc>>

CallCommentLine ==
  /\ pc = "build"
  /\ pc' = "called"
  /\ op' = "comment_line"
  /\ res' = comment_line(input)
  /\ UNCHANGED <<input, n, i, acc>>

CallEmptyLine ==
  /\ pc = "build"
  /\ pc' = "called"
  /\ op' = "empty_line"
  /\ res' = empty_line(input)
  /\ UNCHANGED <<input, n, i, acc>>

CallLine ==
  /\ pc = "build"
  /\ pc' = "called"
  /\ op' = "line"
  /\ res' = line(input)
  /\ UNCHANGED <<input, n, i, acc>>


\* table: many0(line) starts at the input with no line collected.
CallTable ==
  /\ pc = "build"
  /\ pc' = "table"
  /\ op' = "table"
  /\ i' = input
  /\ acc' = <<>>
  /\ UNCHANGED <<input, n, res>>

\* One iteration of many0 on the result r of line: an Err ends the loop with
\* Ok of what is left and the lines collected, a panic aborts, a line that
\* consumed nothing is the error Many0, and otherwise the line is pushed.
Many0Step(r) ==
  IF r.kind = "err"
  THEN /\ res' = Ok(i, acc)
       /\ pc' = "called"
       /\ UNCHANGED <<i, acc>>
  ELSE IF r.kind = "panic"
  THEN /\ res' = Panic
       /\ pc' = "called"
       /\ UNCHANGED <<i, acc>>
  ELSE IF Len(r.rest) = Len(i)
  THEN /\ res' = Err(i, "Many0")
       /\ pc' = "called"
       /\ UNCHANGED <<i, acc>>
  ELSE /\ i' = r.rest
       /\ acc' = Append(acc, r.val)
       /\ UNCHANGED <<res, pc>>

TableStep ==
  /\ pc = "table"
  /\ Many0Step(line(i))
  /\ UNCHANGED <<input, n, op>>

NextTable ==
  \/ TableAppendRule
  \/ TableAppendChunk
  \/ CallEndComment
  \/ CallRuleLine
  \/ CallCommentLine
  \/ CallEmptyLine
  \/ CallLine
  \/ CallTable
  \/ TableStep

SpecTable == InitBuild /\ [][NextTable]_vars

(***************************************************************************)
(* Vocabulary of the properties: what a text is, read independently of the *)
(* parsers.                                                                *)
(***************************************************************************)
Consumed(r) == Take(input, Len(input) - Len(r.rest))
IsSuffix(t, s) == Len(t) <= Len(s) /\ Drop(s, Len(s) - Len(t)) = t

\* t is one or more non-empty runs over the digit set H joined by single "-".
IsListText(t, H) ==
  /\ Len(t) > 0
  /\ \A k \in 1..Len(t) : t[k] \in H \cup {"-"}
  /\ t[1] # "-"
  /\ t[Len(t)] # "-"
  /\ \A k \in 1..(Len(t) - 1) : ~(t[k] = "-" /\ t[k + 1] = "-")

NomHex == Digits \cup LowerHex \cup UpperHex
SpecHex == Digits \cup LowerHex

\* Length of the longest prefix of t that is a list text (0 if there is none).
ListPrefixLen(t, H) ==
  LET good == {k \in 1..Len(t) : IsListText(Take(t, k), H)}
  IN IF good = {} THEN 0 ELSE CHOOSE k \in good : \A m \in good : m <= k

DashCount(t) == Cardinality({k \in 1..Len(t) : t[k] = "-"})

\* The k-th run of a list text: the characters between dash k-1 and dash k.
RunStart(t, k) ==
  IF k = 1 THEN 1
  ELSE 1 + CHOOSE p \in 1..Len(t) :
             t[p] = "-" /\ DashCount(Take(t, p)) = k - 1
RunEnd(t, k) ==
  IF k = DashCount(t) + 1 THEN Len(t)
  ELSE (CHOOSE p \in 1..Len(t) : t[p] = "-" /\ DashCount(Take(t, p)) = k) - 1
RunChars(t, k) == {t[p] : p \in RunStart(t, k)..RunEnd(t, k)}

DotOfDigit ==
  [c \in SpecHex |->
     CASE c = "0" -> "DOT0" [] c = "1" -> "DOT1" [] c = "2" -> "DOT2"
       [] c = "3" -> "DOT3" [] c = "4" -> "DOT4" [] c = "5" -> "DOT5"
       [] c = "6" -> "DOT6" [] c = "7" -> "DOT7" [] c = "8" -> "DOT8"
       [] c = "9" -> "DOT9" [] c = "a" -> "DOTA" [] c = "b" -> "DOTB"
       [] c = "c" -> "DOTC" [] c = "d" -> "DOTD" [] c = "e" -> "DOTE"
       [] c = "f" -> "DOTF"]

\* A "-" that ends the longest list prefix: it follows a run and no hex
\* digit follows it, or the text starts with it.
HasEmptyRun(t, H) ==
  LET k == ListPrefixLen(t, H)
  IN \/ t = <<>>
     \/ t[1] \notin H
     \/ k < Len(t) /\ t[k + 1] = "-"

(***************************************************************************)
(* C1: every input whose dot group contains one of A-F makes dots return a *)
(* parse failure: it neither accepts the uppercase character nor panics.   *)
(* The code panics: hex_digit1 accepts A-F and chars_to_dots unwraps None. *)
(***************************************************************************)
C1_UppercaseRejected ==
  (op = "dots" /\ input # <<>>
     /\ \E k \in 1..SpanFrom(HexClass, input, 0) : input[k] \in UpperHex)
  => res.kind = "err"

(***************************************************************************)
(* C3 as stated: dots returns a parse error on every input that has an     *)
(* empty dash-delimited run (a dash after a run not followed by a hex      *)
(* digit, a leading dash, or no hex digit at the start).  Stated here for  *)
(* the inputs without uppercase letters, where dots cannot panic.          *)
(***************************************************************************)
C3_EmptyRunFails ==
  (op = "dots" /\ (\A k \in 1..Len(input) : input[k] \notin UpperHex)
     /\ HasEmptyRun(input, SpecHex))
  => res.kind = "err"

(***************************************************************************)
(* C3 amended: dots returns a parse error, at the start of the input, when *)
(* the input is empty or does not start with a hex digit of nom's class    *)
(* 0-9a-fA-F (so when it starts with "-").  A dash that follows a run and  *)
(* is not followed by such a hex digit does not make dots fail: dots stops *)
(* before it, so every successful result has consumed exactly the longest  *)
(* prefix of non-empty runs joined by single dashes, returns one non-empty *)
(* cell per run of that prefix, and leaves the dash first in the           *)
(* remainder.                                                              *)
(***************************************************************************)
C3_DotsStopsBeforeEmptyRun ==
  op = "dots" =>
    LET k == ListPrefixLen(input, NomHex)
    IN /\ (input = <<>> \/ input[1] \notin NomHex)
            => res.kind = "err" /\ res.rest = input /\ res.val = "HexDigit"
       /\ (input # <<>> /\ input[1] \in NomHex) => res.kind # "err"
       /\ res.kind = "ok" =>
            /\ res.rest = Drop(input, k)
            /\ Len(res.val) = DashCount(Take(input, k)) + 1
            /\ \A c \in 1..Len(res.val) : res.val[c] # {}
            /\ (k < Len(input) /\ input[k + 1] = "-") => res.rest[1] = "-"

C3_Witness ==
  /\ op = "dots"
  /\ res.kind = "ok"
  /\ Len(res.val) = 2
  /\ res.rest = <<"-">>

(***************************************************************************)
(* C8: on k >= 1 non-empty runs of 0-9a-f joined by single dashes, dots    *)
(* consumes the whole input and returns exactly k cells in the written     *)
(* order, cell c being the dots of the distinct characters of run c; a     *)
(* returned pattern is never empty and has no empty cell.                  *)
(***************************************************************************)
C8_DotsDecodesRuns ==
  op = "dots" =>
    /\ IsListText(input, SpecHex) =>
         /\ res.kind = "ok"
         /\ res.rest = <<>>
         /\ Len(res.val) = DashCount(input) + 1
         /\ \A c \in 1..Len(res.val) :
              /\ res.val[c] = {DotOfDigit[d] : d \in RunChars(input, c)}
              /\ Cardinality(res.val[c]) = Cardinality(RunChars(input, c))
    /\ res.kind = "ok" =>
         /\ Len(res.val) >= 1
         /\ \A c \in 1..Len(res.val) : res.val[c] # {}

C8_Witness ==
  /\ op = "dots"
  /\ input = <<"1", "2", "2", "-", "f">>
  /\ res = Ok(<<>>, <<{"DOT1", "DOT2"}, {"DOTF"}>>)


(***************************************************************************)
(* C6: prefixes succeeds on every input with one of the six legal sets     *)
(* (never Noback with Nofor); it consumes the keywords of the set, each    *)
(* with all the whitespace that follows it, and nothing when the set is    *)
(* empty; on "noback nocross " it returns both flags, both keywords        *)
(* consumed.                                                               *)
(***************************************************************************)
LegalPrefixSets ==
  {{}, {"Nocross"}, {"Noback"}, {"Nofor"},
   {"Noback", "Nocross"}, {"Nofor", "Nocross"}}

NoSpaces(t) == SelectSeq(t, LAMBDA c : ~IsSpace(c))

KeywordsOf(flags) ==
  (IF "Noback" \in flags THEN KwNoback ELSE <<>>)
    \o (IF "Nofor" \in flags THEN KwNofor ELSE <<>>)
    \o (IF "Nocross" \in flags THEN KwNocross ELSE <<>>)

C6_PrefixesTotal ==
  op = "prefixes" =>
    /\ res.kind = "ok"
    /\ res.val \in LegalPrefixSets
    /\ IsSuffix(res.rest, input)
    /\ res.val = {} => res.rest = input
    /\ res.val # {} =>
         /\ NoSpaces(Consumed(res)) = KeywordsOf(res.val)
         /\ IsSpace(Consumed(res)[Len(Consumed(res))])
         /\ res.rest # <<>> => ~IsSpace(res.rest[1])
    /\ StartsWith(input, KwNoback \o <<" ">> \o KwNocross \o <<" ">>) =>
         /\ res.val = {"Noback", "Nocross"}
         /\ Len(Consumed(res)) >= Len(KwNoback) + Len(KwNocross) + 2

C6_Witness ==
  /\ op = "prefixes"
  /\ input = KwNoback \o <<" ">> \o KwNocross \o <<" ">> \o KwDisplay
  /\ res = Ok(KwDisplay, {"Noback", "Nocross"})

(***************************************************************************)
(* C2: when include succeeds every character of the filename is an ASCII   *)
(* letter.  The code reads the filename with chars, the Unicode matcher.   *)
(***************************************************************************)
C2_IncludeFilenameAscii ==
  (op = "include" /\ res.kind = "ok")
  => \A k \in 1..Len(res.val.filename) : IsAsciiAlpha(res.val.filename[k])

(***************************************************************************)
(* Lines of a text.                                                        *)
(***************************************************************************)
NewlineCount(t) == Cardinality({k \in 1..Len(t) : t[k] = "\n"})
HasNewline(t) == \E k \in 1..Len(t) : t[k] = "\n"
FirstNewline(t) ==
  CHOOSE k \in 1..Len(t) : t[k] = "\n" /\ \A m \in 1..(k - 1) : t[m] # "\n"
LastNewline(t) ==
  IF HasNewline(t)
  THEN CHOOSE k \in 1..Len(t) : t[k] = "\n" /\ \A m \in (k + 1)..Len(t) : t[m] # "\n"
  ELSE 0

\* The text after the last line terminator.
LastLine(t) == Drop(t, LastNewline(t))

\* The text of the first physical line, without its terminator "\n" or
\* "\r\n"; only used on texts that have a line terminator.
FirstLineText(t) ==
  LET p == FirstNewline(t)
  IN IF p > 1 /\ t[p - 1] = "\r" THEN Take(t, p - 2) ELSE Take(t, p - 1)

\* The records of the leading lines that line accepts, and what follows.
RECURSIVE ParsedLines(_)
ParsedFrom(t, r) ==
  IF r.kind = "ok" /\ Len(r.rest) < Len(t)
  THEN <<r.val>> \o ParsedLines(r.rest) ELSE <<>>
ParsedLines(t) == ParsedFrom(t, line(t))

RECURSIVE Remainder(_)
RemainderFrom(t, r) ==
  IF r.kind = "ok" /\ Len(r.rest) < Len(t) THEN Remainder(r.rest) ELSE t
Remainder(t) == RemainderFrom(t, line(t))

(***************************************************************************)
(* C4: on every input without a line terminator rule_line, comment_line,   *)
(* empty_line and line return a parse failure, and table applied to a text *)
(* whose last line is unterminated returns that line in the remainder and  *)
(* not among the lines.  The code panics on an unterminated rule with an   *)
(* uppercase hex letter (C1).                                              *)
(***************************************************************************)
C4_TerminatorMandatory ==
  /\ (op \in {"rule_line", "comment_line", "empty_line", "line"}
        /\ ~HasNewline(input))
     => res.kind = "err"
  /\ (op = "table" /\ pc = "called" /\ LastLine(input) # <<>>)
     => /\ res.kind = "ok"
        /\ IsSuffix(LastLine(input), res.rest)
        /\ Len(res.val) <= NewlineCount(input)

(***************************************************************************)
(* C5: table returns success on every input: the lines are the records of  *)
(* the longest run of leading lines that line accepts, in order, and the   *)
(* remainder is the input from the first position where line fails.  The   *)
(* code panics on a line with an uppercase hex letter (C1).                *)
(***************************************************************************)
C5_TableNeverFails ==
  (op = "table" /\ pc = "called")
  => /\ res.kind = "ok"
     /\ res.val = ParsedLines(input)
     /\ res.rest = Remainder(input)
     /\ line(res.rest).kind = "err"

(***************************************************************************)
(* The rest of the physical line after a rule: its leading whitespace and  *)
(* the text after it.                                                      *)
(***************************************************************************)
HasCarriageReturn(t) == \E k \in 1..Len(t) : t[k] = "\r"
GapOf(t) == SpanFrom(SpaceClass, t, 0)
TextOf(t) == Drop(t, GapOf(t))

DirectlyFollowedByText(rest) ==
  /\ rest # <<>>
  /\ ~IsSpace(rest[1])
  /\ ~StartsWith(rest, <<"\n">>)
  /\ ~StartsWith(rest, <<"\r", "\n">>)

\* The cases of C7 for a rule result r whose physical line has a terminator
\* and goes on with the text l; anyText says whether the first case covers
\* a text with a carriage return.
CommentCases(r, l, anyText) ==
  /\ (GapOf(l) >= 1 /\ TextOf(l) # <<>>
        /\ (anyText \/ ~HasCarriageReturn(TextOf(l))))
       => /\ res.kind = "ok"
          /\ res.val.comment = TextOf(l)
          /\ res.val.rule = r.val
          /\ res.rest = Drop(r.rest, FirstNewline(r.rest))
  /\ TextOf(l) = <<>>
       => /\ res.kind = "ok"
          /\ res.val.comment = <<>>

CommentAfter(r, anyText) ==
  r.kind = "ok" =>
    /\ HasNewline(r.rest) => CommentCases(r, FirstLineText(r.rest), anyText)
    /\ DirectlyFollowedByText(r.rest) => res.kind = "err"

CarriageReturnFails(r) ==
  (r.kind = "ok" /\ HasNewline(r.rest)
     /\ GapOf(FirstLineText(r.rest)) >= 1
     /\ HasCarriageReturn(TextOf(FirstLineText(r.rest))))
  => res.kind = "err"

(***************************************************************************)
(* C7 as stated: after a rule, on a terminated line, whitespace followed   *)
(* by text makes that text the comment (separating whitespace removed,     *)
(* trailing whitespace kept); only whitespace or nothing makes the comment *)
(* empty; a character that is neither whitespace nor the terminator right  *)
(* after the rule makes rule_line fail.                                    *)
(***************************************************************************)
C7_TrailingComment ==
  op = "rule_line" => CommentAfter(rule(input), TRUE)

(***************************************************************************)
(* C7 amended: as stated when the text after the separating whitespace     *)
(* contains no carriage return; when it contains one (a carriage return    *)
(* that is not part of the line terminator), rule_line fails.              *)
(***************************************************************************)
C7_TrailingCommentNoCarriageReturn ==
  op = "rule_line" =>
    /\ CommentAfter(rule(input), FALSE)
    /\ CarriageReturnFails(rule(input))

C7_Witness ==
  /\ op = "rule_line"
  /\ res.kind = "ok"
  /\ res.val.comment = <<"#", " ">>
  /\ res.rest = <<>>
  /\ \E k \in 1..Len(input) : input[k] = "\t" /\ input[k + 1] = "#"

(***************************************************************************)
(* C9: on every input at most one of rule_line, comment_line, empty_line   *)
(* succeeds, so line gives the same outcome (failure, or the same record   *)
(* and remainder) whatever the order of the three alternatives; and at     *)
(* most one of the seven rule parsers succeeds.                            *)
(***************************************************************************)
OkCount(rs) == Cardinality({k \in 1..Len(rs) : rs[k].kind = "ok"})

SameOutcome(a, b) ==
  /\ a.kind = b.kind
  /\ a.kind = "ok" => a = b

FormsExclusive(r, c, e) ==
  /\ OkCount(<<r, c, e>>) <= 1
  /\ \A order \in {<<r, e, c>>, <<c, r, e>>, <<c, e, r>>,
                  <<e, r, c>>, <<e, c, r>>} :
       SameOutcome(res, Alt(order))

OneLineConsumed(t) ==
  /\ t # <<>>
  /\ t[Len(t)] = "\n"
  /\ NewlineCount(t) = 1
  /\ \A k \in 1..Len(t) : t[k] = "\r" => k = Len(t) - 1

OneLineOf(t, r) ==
  r.kind = "ok" => OneLineConsumed(Take(t, Len(t) - Len(r.rest)))

LineAccounting(rest, lines) ==
  /\ IsSuffix(rest, input)
  /\ Len(lines) = NewlineCount(Take(input, Len(input) - Len(rest)))
  /\ Len(rest) < Len(input) => input[Len(input) - Len(rest)] = "\n"

C10_TableProgress ==
  /\ op = "line" => OneLineOf(input, res)
  /\ (op = "table" /\ pc = "table") =>
       /\ LineAccounting(i, acc)
       /\ OneLineOf(i, line(i))
  /\ (op = "table" /\ pc = "called") =>
       /\ res.kind # "err"
       /\ res.kind = "ok" => LineAccounting(res.rest, res.val)

C10_Witness ==
  /\ op = "table"
  /\ pc = "called"
  /\ res.kind = "ok"
  /\ Len(res.val) = 2
  /\ res.val[1].line = "Rule"
  /\ res.val[2].line = "Comment"
  /\ res.rest = <<"#">>

====
